---- MODULE Spec2Model ----
(***************************************************************************)
(* Model of app.py, the "AI Business Analyst Agent" Streamlit script.      *)
(*                                                                         *)
(* The script is executed top to bottom once per user interaction (a       *)
(* Streamlit rerun).  One script run loads the tables through the          *)
(* st.cache_data wrapped load_data, preprocesses and enriches them in      *)
(* place (lines 79-125) and, when a question was entered, classifies it    *)
(* through the Groq client, dispatches to an analysis function and asks    *)
(* the Groq client for an explanation (lines 250-264).  The two Groq calls *)
(* are the only points where the script waits on the outside world.        *)
(*                                                                         *)
(* Tables are sequences of records (one record per row, one field per      *)
(* column).  Columns that can hold NaN or values of different types hold   *)
(* cells: Num(n), Str(s) or NaN.  Text returned by the language model is a *)
(* sequence of tokens (white space and words); no concatenation of two or  *)
(* more tokens of the alphabet spells an intent label.                     *)
(***************************************************************************)
EXTENDS Integers, Sequences, FiniteSets, TLC

VARIABLES
    files,            \* what read_csv / read_excel return for the files on disk
    cache,            \* the st.cache_data store of load_data: <<>> or <<tables>>
    online_sales,     \* this run's DataFrames (lines 42-46)
    discount_coupon,
    marketing_spend,
    tax_amount,
    query,            \* the text_input value of this run (line 241)
    pc,               \* position of the script run
    request,          \* the Groq request in flight, <<>> when none
    raw,              \* content of the last classification completion
    intent,           \* line 251
    result_df,        \* line 257
    explanation,      \* line 263
    display,          \* elements rendered by this run, in order
    error,            \* the uncaught exception that ended this run, <<>> when none
    trace,            \* calls made by this run, in order
    runs,             \* script runs started in this session
    loads,            \* executions of the body of load_data
    enrichments       \* executions of the enrichment (lines 79-125)

vars == <<files, cache, online_sales, discount_coupon, marketing_spend,
          tax_amount, query, pc, request, raw, intent, result_df,
          explanation, display, error, trace, runs, loads, enrichments>>

(***************************************************************************)
(* Bounds of the model.                                                    *)
(***************************************************************************)
MaxRows == 2        \* rows of Online_Sales.csv
MaxCoupons == 1     \* rows of Discount_Coupon.csv
MaxRuns == 2        \* script runs of one session
MaxRespLen == 2     \* tokens of a classification completion

(***************************************************************************)
(* Cells.                                                                  *)
(***************************************************************************)
Num(n) == [ty |-> "num", n |-> n, s |-> ""]
Str(s) == [ty |-> "str", n |-> 0, s |-> s]
NaN == [ty |-> "nan", n |-> 0, s |-> ""]

IsNum(c) == c.ty = "num"
IsNaN(c) == c.ty = "nan"

SeqsUpTo(S, n) == UNION {[1..k -> S] : k \in 0..n}

Range(s) == {s[i] : i \in 1..Len(s)}

RECURSIVE SumSeq(_)
SumSeq(s) == IF s = <<>> THEN 0 ELSE Head(s) + SumSeq(Tail(s))

\* the elements of a finite set of integers, ascending
RECURSIVE Ascending(_)
Ascending(S) ==
    IF S = {} THEN <<>>
    ELSE LET m == CHOOSE x \in S : \A y \in S : x <= y
         IN  <<m>> \o Ascending(S \ {m})

\* DataFrame.head(n)
HeadRows(df, n) == SubSeq(df, 1, IF Len(df) < n THEN Len(df) ELSE n)

(***************************************************************************)
(* Input domains: the values the files hold.                               *)
(***************************************************************************)
CategoryOrder == <<"Apparel", "Nest">>     \* product categories, alphabetical
Categories == Range(CategoryOrder)
DateStrings == {"2022-03-05", "n/a"}
\* Quantity, Avg_Price and Coupon_Status of a purchase
Purchases == {<<1, 20, NaN>>, <<10, 20, Str("Used")>>}

SalesRows ==
    {[Transaction_Date |-> d, Product_Category |-> c,
      Quantity |-> p[1], Avg_Price |-> p[2], Coupon_Status |-> p[3]] :
        d \in DateStrings, c \in Categories, p \in Purchases}

CouponRows ==
    {[Month |-> m, Product_Category |-> c, Discount_pct |-> p] :
        m \in {Num(3), Str("Mar")}, c \in {"Apparel"}, p \in {Num(15), NaN}}

MarketingA ==
    <<[Date |-> "2022-03-05", Offline_Spend |-> 600, Online_Spend |-> 300],
      [Date |-> "2022-03-05", Offline_Spend |-> 60, Online_Spend |-> 40],
      [Date |-> "n/a", Offline_Spend |-> 100, Online_Spend |-> 50]>>

TaxA ==
    <<[Product_Category |-> "Apparel", GST |-> Num(5)],
      [Product_Category |-> "Nest", GST |-> NaN]>>

\* a Tax_amount.xlsx that lists a category twice
TaxB ==
    <<[Product_Category |-> "Apparel", GST |-> Num(5)],
      [Product_Category |-> "Apparel", GST |-> Num(12)]>>

Files(sales, coupons, marketing, tax) ==
    [sales |-> sales, coupons |-> coupons, marketing |-> marketing, tax |-> tax]

(***************************************************************************)
(* DATA PREPROCESSING (lines 79-97).                                       *)
(***************************************************************************)
NaT == [nat |-> TRUE, year |-> 0, month |-> 0, day |-> 0]

\* pd.to_datetime(..., errors="coerce") of one value
to_datetime(s) ==
    CASE s = "2022-03-05" -> [nat |-> FALSE, year |-> 2022, month |-> 3, day |-> 5]
      [] s = "2022-04-17" -> [nat |-> FALSE, year |-> 2022, month |-> 4, day |-> 17]
      [] OTHER -> NaT

dt_year(d) == IF d.nat THEN NaN ELSE Num(d.year)
dt_month(d) == IF d.nat THEN NaN ELSE Num(d.month)

fillna(c, v) == IF IsNaN(c) THEN Num(v) ELSE c

\* str() of a month number
DecimalStr(n) ==
    <<"1", "2", "3", "4", "5", "6", "7", "8", "9", "10", "11", "12">>[n]

\* Series.astype(str) of one value
astype_str(c) ==
    CASE c.ty = "num" -> Str(DecimalStr(c.n))
      [] c.ty = "str" -> c
      [] OTHER -> Str("nan")

\* Revenue column of one row (line 82)
Revenue(r) == r.Quantity * r.Avg_Price

\* Series.fillna with a str
fillna_str(c, v) == IF IsNaN(c) THEN Str(v) ELSE c

\* lines 79-85
PreprocessSales(df) ==
    [i \in 1..Len(df) |->
        LET d == to_datetime(df[i].Transaction_Date)
        IN  [Transaction_Date |-> d,
             Product_Category |-> df[i].Product_Category,
             Quantity |-> df[i].Quantity,
             Avg_Price |-> df[i].Avg_Price,
             Revenue |-> Revenue(df[i]),
             Year |-> dt_year(d),
             Month |-> dt_month(d),
             Coupon_Status |-> fillna_str(df[i].Coupon_Status, "No Coupon")]]

\* Month column of the coupon table (line 87)
CouponMonth(c) == astype_str(c)

\* lines 87-88
PreprocessCoupons(df) ==
    [i \in 1..Len(df) |->
        [Month |-> CouponMonth(df[i].Month),
         Product_Category |-> df[i].Product_Category,
         Discount_pct |-> fillna(df[i].Discount_pct, 0)]]

\* lines 90-95
PreprocessMarketing(df) ==
    [i \in 1..Len(df) |->
        LET d == to_datetime(df[i].Date)
        IN  [Date |-> d,
             Offline_Spend |-> df[i].Offline_Spend,
             Online_Spend |-> df[i].Online_Spend,
             Year |-> dt_year(d),
             Month |-> dt_month(d),
             Total_Marketing_Spend |-> df[i].Offline_Spend + df[i].Online_Spend]]

\* line 97
PreprocessTax(df) ==
    [i \in 1..Len(df) |->
        [Product_Category |-> df[i].Product_Category,
         GST |-> fillna(df[i].GST, 0)]]

(***************************************************************************)
(* LOOKUPS (lines 102-125).  A Series is a sequence of [key, value]; its   *)
(* index may hold the same key twice.                                      *)
(***************************************************************************)
tax_lookup(tax) ==
    [i \in 1..Len(tax) |-> [key |-> tax[i].Product_Category, value |-> tax[i].GST]]

discount_lookup(coupons) ==
    [i \in 1..Len(coupons) |->
        [key |-> <<coupons[i].Month, coupons[i].Product_Category>>,
         value |-> coupons[i].Discount_pct]]

\* groupby(["Year", "Month"])["Total_Marketing_Spend"].sum(): rows with a NaN
\* key are dropped, one entry per remaining key
marketing_lookup(marketing) ==
    LET keyed == SelectSeq(marketing, LAMBDA r : IsNum(r.Year) /\ IsNum(r.Month))
        first == SelectSeq([i \in 1..Len(keyed) |-> i],
                     LAMBDA i : \A j \in 1..(i - 1) :
                         <<keyed[j].Year, keyed[j].Month>> # <<keyed[i].Year, keyed[i].Month>>)
    IN  [k \in 1..Len(first) |->
            LET key == <<keyed[first[k]].Year, keyed[first[k]].Month>>
                grp == SelectSeq(keyed, LAMBDA r : <<r.Year, r.Month>> = key)
            IN  [key |-> key,
                 value |-> Num(SumSeq([j \in 1..Len(grp) |-> grp[j].Total_Marketing_Spend]))]]

is_unique(lookup) ==
    \A i, j \in 1..Len(lookup) : lookup[i].key = lookup[j].key => i = j

\* the value a Series holds for a key of its unique index, NaN when absent
Lookup(lookup, key) ==
    IF \E i \in 1..Len(lookup) : lookup[i].key = key
    THEN lookup[CHOOSE i \in 1..Len(lookup) : lookup[i].key = key].value
    ELSE NaN

\* Series.map / Index.map with a Series as mapper; the caller has checked
\* that the mapper's index is unique (pandas raises InvalidIndexError otherwise)
map(keys, lookup) == [i \in 1..Len(keys) |-> Lookup(lookup, keys[i])]

\* DiscountColumn without the fillna(0) of line 118
DiscountColumnNoFill(sales, lookup) ==
    map([i \in 1..Len(sales) |-> <<sales[i].Month, sales[i].Product_Category>>], lookup)

\* Discount_pct of the rows (lines 114-119)
DiscountColumn(sales, lookup) ==
    LET keys == [i \in 1..Len(sales) |-> <<sales[i].Month, sales[i].Product_Category>>]
        got == map(keys, lookup)
    IN  [i \in 1..Len(sales) |-> fillna(got[i], 0)]

AddColumn(df, name, col) ==
    [i \in 1..Len(df) |-> (name :> col[i]) @@ df[i]]

\* lines 79-125 on the tables load_data returned: the four tables as the
\* script leaves them, and the exception that stopped it, if any
Enrich(t) ==
    LET s1 == PreprocessSales(t.sales)
        c1 == PreprocessCoupons(t.coupons)
        m1 == PreprocessMarketing(t.marketing)
        t1 == PreprocessTax(t.tax)
        tl == tax_lookup(t1)
        dl == discount_lookup(c1)
        ml == marketing_lookup(m1)
        s2 == AddColumn(s1, "GST_pct",
                  map([i \in 1..Len(s1) |-> s1[i].Product_Category], tl))
        s3 == AddColumn(s2, "Discount_pct", DiscountColumn(s2, dl))
        s4 == AddColumn(s3, "Marketing_Spend",
                  map([i \in 1..Len(s3) |-> <<s3[i].Year, s3[i].Month>>], ml))
        out(s, e) == [sales |-> s, coupons |-> c1, marketing |-> m1, tax |-> t1,
                      error |-> e]
    IN  IF ~is_unique(tl) THEN out(s1, <<[exception |-> "InvalidIndexError", line |-> 112]>>)
        ELSE IF ~is_unique(dl) THEN out(s2, <<[exception |-> "InvalidIndexError", line |-> 114]>>)
        ELSE out(s4, <<>>)

(***************************************************************************)
(* ANALYSIS FUNCTIONS (lines 130-163).  groupby sorts the groups by key    *)
(* and drops rows whose key is NaN; sum skips NaN.                         *)
(***************************************************************************)
RevenueOf(rows) == SumSeq([i \in 1..Len(rows) |-> rows[i].Revenue])

QuantityOf(rows) == SumSeq([i \in 1..Len(rows) |-> rows[i].Quantity])

\* mean of a column of cells, NaN skipped: the exact quotient num / den
\* (den = 0: the mean is NaN)
MeanOf(rows, col) ==
    LET nums == SelectSeq(rows, LAMBDA r : IsNum(r[col]))
    IN  [num |-> SumSeq([i \in 1..Len(nums) |-> nums[i][col].n]), den |-> Len(nums)]

\* the product categories of df, in groupby order
GroupCategories(df) ==
    SelectSeq(CategoryOrder, LAMBDA c : \E i \in 1..Len(df) : df[i].Product_Category = c)

RowsOf(df, c) == SelectSeq(df, LAMBDA r : r.Product_Category = c)

sales_trend(df) ==
    LET rows == SelectSeq(df, LAMBDA r : IsNum(r.Year) /\ IsNum(r.Month))
        ys == Ascending({rows[i].Year.n : i \in 1..Len(rows)})
        ms == Ascending({rows[i].Month.n : i \in 1..Len(rows)})
        cs == CategoryOrder
        M == Len(ms)
        C == Len(cs)
        keys == [k \in 1..(Len(ys) * M * C) |->
                    <<ys[((k - 1) \div (M * C)) + 1],
                      ms[(((k - 1) \div C) % M) + 1],
                      cs[((k - 1) % C) + 1]>>]
        grp(key) == SelectSeq(rows, LAMBDA r :
                        <<r.Year.n, r.Month.n, r.Product_Category>> = key)
        present == SelectSeq(keys, LAMBDA key : grp(key) # <<>>)
    IN  [k \in 1..Len(present) |->
            [Year |-> present[k][1], Month |-> present[k][2],
             Product_Category |-> present[k][3],
             Revenue |-> RevenueOf(grp(present[k]))]]

\* sort_values left out: the rows stay in groupby order
unsorted(df) == df

\* DataFrame.sort_values("total_revenue"): ascending; rows of equal
\* total_revenue keep their order (the sort pandas runs on frames this small)
RECURSIVE sort_values(_)
sort_values(df) ==
    IF df = <<>> THEN <<>>
    ELSE LET n == Len(df)
             x == df[n]
             done == sort_values(SubSeq(df, 1, n - 1))
             k == Cardinality({i \in 1..Len(done) :
                                  done[i].total_revenue <= x.total_revenue})
         IN  SubSeq(done, 1, k) \o <<x>> \o SubSeq(done, k + 1, Len(done))

underperforming_products(df) ==
    LET cs == GroupCategories(df)
    IN  sort_values(
            [k \in 1..Len(cs) |->
                [Product_Category |-> cs[k],
                 total_revenue |-> RevenueOf(RowsOf(df, cs[k])),
                 avg_discount |-> MeanOf(RowsOf(df, cs[k]), "Discount_pct"),
                 total_quantity |-> QuantityOf(RowsOf(df, cs[k]))]])

discount_vs_revenue(df) ==
    LET cs == GroupCategories(df)
    IN  [k \in 1..Len(cs) |->
            [Product_Category |-> cs[k],
             avg_discount_pct |-> MeanOf(RowsOf(df, cs[k]), "Discount_pct"),
             total_revenue |-> RevenueOf(RowsOf(df, cs[k]))]]

\* the dict with two of its values exchanged
INTENT_TO_ANALYSIS_swapped ==
    [sales_trend |-> "sales_trend",
     underperforming_products |-> "discount_vs_revenue",
     discount_vs_revenue |-> "underperforming_products"]

\* the dict of line 159: intent label -> analysis function
INTENT_TO_ANALYSIS ==
    [sales_trend |-> "sales_trend",
     underperforming_products |-> "underperforming_products",
     discount_vs_revenue |-> "discount_vs_revenue"]

\* a call of the analysis function named f
Call(f, df) ==
    CASE f = "sales_trend" -> sales_trend(df)
      [] f = "underperforming_products" -> underperforming_products(df)
      [] f = "discount_vs_revenue" -> discount_vs_revenue(df)

(***************************************************************************)
(* INTENT CLASSIFICATION (lines 168-185).                                  *)
(***************************************************************************)
Whitespace == {" ", "\n"}
Words == {"sales_trend", "SALES_TREND", "Underperforming_Products",
          "discount_vs_revenue", "unknown", "sales_trend please"}
Tokens == Whitespace \cup Words

\* str.strip()
strip(s) ==
    LET keep == {i \in 1..Len(s) : s[i] \notin Whitespace}
    IN  IF keep = {} THEN <<>>
        ELSE SubSeq(s, CHOOSE i \in keep : \A j \in keep : i <= j,
                       CHOOSE i \in keep : \A j \in keep : j <= i)

LowerWord(w) ==
    CASE w = "SALES_TREND" -> "sales_trend"
      [] w = "Underperforming_Products" -> "underperforming_products"
      [] OTHER -> w

\* str.lower()
lower(s) == [i \in 1..Len(s) |-> LowerWord(s[i])]

\* the text is exactly one of the keys of INTENT_TO_ANALYSIS
IsKey(s) == Len(s) = 1 /\ s[1] \in DOMAIN INTENT_TO_ANALYSIS

\* classify_intent without the strip() of line 184
classify_intent_nostrip(content) ==
    LET intent_ == lower(content)
    IN  IF IsKey(intent_) THEN intent_[1] ELSE "unknown"

\* lines 184-185 on the content of the completion
classify_intent(content) ==
    LET intent_ == lower(strip(content))
    IN  IF IsKey(intent_) THEN intent_[1] ELSE "unknown"

(***************************************************************************)
(* The Groq client and what the page shows.                                *)
(***************************************************************************)
Queries == {"Which categories are underperforming?", "What is the weather?"}
Replies == SeqsUpTo(Tokens, MaxRespLen)
\* completions that are a bare label
LabelReplies == {<<w>> : w \in DOMAIN INTENT_TO_ANALYSIS \cup {"unknown"}}
Narratives == {"Apparel trails every other category."}
APIErrors == {"APIConnectionError", "APITimeoutError", "AuthenticationError"}

PreviewRows == 20     \* result_df.head(20), line 260
SampleRows == 5       \* result_df.head(), line 263

Element(el, text, table) == [el |-> el, text |-> text, table |-> table]
Event(ev, arg) == [ev |-> ev, arg |-> arg]
Raised(e, line, fn) == <<[exception |-> e, line |-> line, fn |-> fn]>>

\* the request of lines 179-183
ClassifyRequest(q) ==
    [fn |-> "classify_intent", model |-> "llama-3.1-8b-instant",
     query |-> q, sample |-> <<>>, temperature |-> "0"]

\* the request of lines 205-209
ExplainRequest(q, df_preview) ==
    [fn |-> "explain_result", model |-> "llama-3.1-8b-instant",
     query |-> q, sample |-> df_preview, temperature |-> "0.3"]

\* lines 254-255: the intent is unknown
Warned(intent_) ==
    [intent |-> intent_,
     display |-> <<Element("markdown", intent_, <<>>),
                   Element("warning", "I couldn't clearly understand this question.", <<>>)>>,
     result_df |-> <<>>,
     trace |-> <<>>,
     request |-> <<>>,
     error |-> <<>>,
     pc |-> "done"]

\* lines 257-263, up to the request of explain_result: the analysis
\* function f runs on df, its first rows are shown and sent for explanation
Analysed(intent_, f, q, df) ==
    LET res == Call(f, df)
    IN  [intent |-> intent_,
         display |-> <<Element("markdown", intent_, <<>>),
                       Element("markdown", "### Analysis Preview", <<>>),
                       Element("dataframe", "", HeadRows(res, PreviewRows)),
                       Element("markdown", "### Explanation", <<>>)>>,
         result_df |-> res,
         trace |-> <<Event("analysis", f), Event("explain_result", q)>>,
         request |-> <<ExplainRequest(q, HeadRows(res, SampleRows))>>,
         error |-> <<>>,
         pc |-> "explain_wait"]

\* RunAgent with a default analysis for an intent the dict does not hold
RunAgentDefault(intent_, q, df) ==
    IF intent_ = "unknown"
    THEN Analysed(intent_, "sales_trend", q, df)
    ELSE Analysed(intent_, INTENT_TO_ANALYSIS[intent_], q, df)

\* lines 252-263, from the return of classify_intent to the request of
\* explain_result: what is rendered, computed and called
RunAgent(intent_, q, df) ==
    IF intent_ = "unknown"
    THEN Warned(intent_)
    ELSE Analysed(intent_, INTENT_TO_ANALYSIS[intent_], q, df)

\* ClassifyRaises with the failure caught and answered as "unknown"
ClassifySwallows(e, q, df) == Warned("unknown")

\* the Groq call of classify_intent raises: nothing catches it, the run ends
\* at line 251
ClassifyRaises(e, q, df) ==
    [intent |-> "", display |-> <<>>, result_df |-> <<>>, trace |-> <<>>,
     request |-> <<>>, error |-> Raised(e, 251, "classify_intent"), pc |-> "error"]

\* ExplainRaises with the failure caught and the table written in place of
\* the explanation
ExplainFallsBack(e, df) ==
    [explanation |-> "", display |-> <<Element("write", "", df)>>,
     error |-> <<>>, pc |-> "done"]

\* the Groq call of explain_result raises: nothing catches it, the run ends
\* at line 263
ExplainRaises(e, df) ==
    [explanation |-> "", display |-> <<>>,
     error |-> Raised(e, 263, "explain_result"), pc |-> "error"]

(***************************************************************************)
(* load_data under st.cache_data (lines 30-40): the body runs on a miss,   *)
(* and every call returns a fresh copy of the stored value.                *)
(***************************************************************************)
load_data(cache_) ==
    IF cache_ = <<>>
    THEN [cache |-> <<files>>, value |-> files, ran |-> 1]
    ELSE [cache |-> cache_, value |-> cache_[1], ran |-> 0]

(***************************************************************************)
(* Actions.                                                                *)
(***************************************************************************)
SampleFiles ==
    {Files(<<[Transaction_Date |-> "2022-03-05", Product_Category |-> "Apparel",
              Quantity |-> 10, Avg_Price |-> 20, Coupon_Status |-> Str("Used")],
             [Transaction_Date |-> "n/a", Product_Category |-> "Nest",
              Quantity |-> 1, Avg_Price |-> 20, Coupon_Status |-> NaN]>>,
           <<[Month |-> Num(3), Product_Category |-> "Apparel",
              Discount_pct |-> Num(15)]>>,
           MarketingA, TaxA),
     Files(<<[Transaction_Date |-> "2022-04-17", Product_Category |-> "Apparel",
              Quantity |-> 10, Avg_Price |-> 20, Coupon_Status |-> Str("Used")],
             [Transaction_Date |-> "2022-03-05", Product_Category |-> "Nest",
              Quantity |-> 1, Avg_Price |-> 20, Coupon_Status |-> NaN],
             [Transaction_Date |-> "2022-04-17", Product_Category |-> "Nest",
              Quantity |-> 3, Avg_Price |-> 5, Coupon_Status |-> NaN]>>,
           <<[Month |-> Str("Mar"), Product_Category |-> "Nest",
              Discount_pct |-> NaN],
             [Month |-> Str("Apr"), Product_Category |-> "Nest",
              Discount_pct |-> Num(10)]>>,
           MarketingA, TaxA),
     Files(<<[Transaction_Date |-> "2022-04-17", Product_Category |-> "Nest",
              Quantity |-> 10, Avg_Price |-> 20, Coupon_Status |-> Str("Used")]>>,
           <<>>, MarketingA, TaxB)}

\* nothing of a run exists before its first line
Fresh ==
    /\ request = <<>>
    /\ raw = <<>>
    /\ intent = ""
    /\ result_df = <<>>
    /\ explanation = ""
    /\ display = <<>>
    /\ error = <<>>
    /\ trace = <<>>
    /\ online_sales = <<>>
    /\ discount_coupon = <<>>
    /\ marketing_spend = <<>>
    /\ tax_amount = <<>>

\* a new session: the first run of the script, the text input empty
InitWith(F) ==
    /\ files \in F
    /\ cache = <<>>
    /\ query = ""
    /\ pc = "start"
    /\ runs = 1
    /\ loads = 0
    /\ enrichments = 0
    /\ Fresh

Init == InitWith(SampleFiles)

InitData ==
    InitWith({Files(s, c, MarketingA, TaxA) :
                 s \in SeqsUpTo(SalesRows, MaxRows),
                 c \in SeqsUpTo(CouponRows, MaxCoupons)})

\* the script from its first line to the first point it waits or ends:
\* lines 40-125, and lines 250-251 up to the request of classify_intent
RunScript ==
    /\ pc = "start"
    /\ LET ld == load_data(cache)
           en == Enrich(ld.value)
       IN  /\ cache' = ld.cache
           /\ loads' = loads + ld.ran
           /\ enrichments' = enrichments + 1
           /\ online_sales' = en.sales
           /\ discount_coupon' = en.coupons
           /\ marketing_spend' = en.marketing
           /\ tax_amount' = en.tax
           /\ error' = IF en.error = <<>> THEN <<>>
                       ELSE Raised(en.error[1].exception, en.error[1].line, "")
           /\ IF en.error # <<>>
              THEN /\ pc' = "error"
                   /\ trace' = <<Event("load_data", ""), Event("enrich", "")>>
                   /\ request' = <<>>
              ELSE IF query = ""
              THEN /\ pc' = "done"
                   /\ trace' = <<Event("load_data", ""), Event("enrich", "")>>
                   /\ request' = <<>>
              ELSE /\ pc' = "classify_wait"
                   /\ trace' = <<Event("load_data", ""), Event("enrich", ""),
                                 Event("classify_intent", query)>>
                   /\ request' = <<ClassifyRequest(query)>>
    /\ UNCHANGED <<files, query, raw, intent, result_df, explanation, display, runs>>

\* the completion of classify_intent's call arrives: lines 184-185, then
\* lines 252-263 up to the request of explain_result
ClassifyReturn(content) ==
    /\ pc = "classify_wait"
    /\ LET out == RunAgent(classify_intent(content), query, online_sales)
       IN  /\ raw' = content
           /\ intent' = out.intent
           /\ display' = display \o out.display
           /\ result_df' = out.result_df
           /\ trace' = trace \o <<Event("classified", out.intent)>> \o out.trace
           /\ request' = out.request
           /\ error' = out.error
           /\ pc' = out.pc
    /\ UNCHANGED <<files, cache, online_sales, discount_coupon, marketing_spend,
                   tax_amount, query, explanation, runs, loads, enrichments>>

\* classify_intent's call fails
ClassifyFail(e) ==
    /\ pc = "classify_wait"
    /\ LET out == ClassifyRaises(e, query, online_sales)
       IN  /\ intent' = out.intent
           /\ display' = display \o out.display
           /\ result_df' = out.result_df
           /\ trace' = trace \o <<Event("classify_failed", e)>> \o out.trace
           /\ request' = out.request
           /\ error' = out.error
           /\ pc' = out.pc
    /\ UNCHANGED <<files, cache, online_sales, discount_coupon, marketing_spend,
                   tax_amount, query, raw, explanation, runs, loads, enrichments>>

\* the completion of explain_result's call arrives: lines 210, 263-264
ExplainReturn(text) ==
    /\ pc = "explain_wait"
    /\ explanation' = text
    /\ display' = Append(display, Element("write", text, <<>>))
    /\ request' = <<>>
    /\ pc' = "done"
    /\ UNCHANGED <<files, cache, online_sales, discount_coupon, marketing_spend,
                   tax_amount, query, raw, intent, result_df, error, trace,
                   runs, loads, enrichments>>

\* explain_result's call fails
ExplainFail(e) ==
    /\ pc = "explain_wait"
    /\ LET out == ExplainRaises(e, result_df)
       IN  /\ explanation' = out.explanation
           /\ display' = display \o out.display
           /\ error' = out.error
           /\ pc' = out.pc
    /\ request' = <<>>
    /\ trace' = Append(trace, Event("explain_failed", e))
    /\ UNCHANGED <<files, cache, online_sales, discount_coupon, marketing_spend,
                   tax_amount, query, raw, intent, result_df,
                   runs, loads, enrichments>>

\* the user changes the text input (or any widget) after a run ended:
\* Streamlit runs the script again from the top, in the same process
UserInput(q) ==
    /\ pc \in {"done", "error"}
    /\ runs < MaxRuns
    /\ runs' = runs + 1
    /\ query' = q
    /\ pc' = "start"
    /\ request' = <<>>
    /\ raw' = <<>>
    /\ intent' = ""
    /\ result_df' = <<>>
    /\ explanation' = ""
    /\ display' = <<>>
    /\ error' = <<>>
    /\ trace' = <<>>
    /\ online_sales' = <<>>
    /\ discount_coupon' = <<>>
    /\ marketing_spend' = <<>>
    /\ tax_amount' = <<>>
    /\ UNCHANGED <<files, cache, loads, enrichments>>

Next ==
    \/ RunScript
    \/ \E content \in Replies : ClassifyReturn(content)
    \/ \E e \in APIErrors : ClassifyFail(e)
    \/ \E text \in Narratives : ExplainReturn(text)
    \/ \E e \in APIErrors : ExplainFail(e)
    \/ \E q \in Queries \cup {""} : UserInput(q)

Spec == Init /\ [][Next]_vars

\* the enrichment and the analyses over every small Sales and Coupon table:
\* one question, answered with a bare label
NextData ==
    \/ RunScript
    \/ \E content \in LabelReplies : ClassifyReturn(content)
    \/ \E text \in Narratives : ExplainReturn(text)
    \/ \E q \in {"Which categories are underperforming?"} : runs = 1 /\ UserInput(q)

SpecData == InitData /\ [][NextData]_vars

(***************************************************************************)
(* Properties.                                                             *)
(***************************************************************************)
Labels == {"sales_trend", "underperforming_products", "discount_vs_revenue"}
IntentSet == Labels \cup {"unknown"}

Has(ev) == \E i \in 1..Len(trace) : trace[i].ev = ev
EventsOf(ev) == SelectSeq(trace, LAMBDA x : x.ev = ev)
Shows(el) == \E k \in 1..Len(display) : display[k].el = el

\* lines 79-125 ran to their end in this run
EnrichmentDone ==
    /\ pc # "start"
    /\ ~(error # <<>> /\ error[1].exception = "InvalidIndexError")

\* the text s without its leading and trailing white space
Cores(s) ==
    {SubSeq(s, i + 1, Len(s) - j) : i \in 0..Len(s), j \in 0..Len(s)} \cap
    {c \in SeqsUpTo(Tokens, Len(s)) :
        \E i \in 0..Len(s) : \E j \in 0..(Len(s) - i) :
            /\ c = SubSeq(s, i + 1, Len(s) - j)
            /\ \A k \in 1..i : s[k] \in Whitespace
            /\ \A k \in (Len(s) - j + 1)..Len(s) : s[k] \in Whitespace
            /\ c # <<>> => c[1] \notin Whitespace /\ c[Len(c)] \notin Whitespace}

\* C1: whatever text the language model returns, classify_intent returns a
\* member of {sales_trend, underperforming_products, discount_vs_revenue,
\* unknown}: the trimmed, lower-cased text when that is exactly one of the
\* three analysis labels, unknown otherwise; no other label is dispatched.
C1_ClassifyIntentClosed ==
    Has("classified") =>
        /\ intent \in IntentSet
        /\ \A c \in Cores(raw) :
              IF Len(c) = 1 /\ LowerWord(c[1]) \in Labels
              THEN intent = LowerWord(c[1])
              ELSE intent = "unknown"
        /\ \A i \in 1..Len(trace) : trace[i].ev = "analysis" => trace[i].arg \in Labels

C1_Witness ==
    /\ Has("classified")
    /\ raw = <<"sales_trend please">>
    /\ intent = "unknown"

\* C2: the analysis function runs only after the classification call has
\* returned a label other than unknown, the explain_result call starts only
\* after the analysis result exists and carries its first rows, and for an
\* unknown intent neither the analysis nor the explanation is invoked.
C2_StepsOrdered ==
    /\ \A i \in 1..Len(trace) : trace[i].ev = "analysis" =>
          \E j \in 1..(i - 1) :
              /\ trace[j].ev = "classified"
              /\ trace[j].arg \in Labels
              /\ \E k \in 1..(j - 1) : trace[k].ev = "classify_intent"
    /\ \A i \in 1..Len(trace) : trace[i].ev = "explain_result" =>
          \E j \in 1..(i - 1) :
              /\ trace[j].ev = "analysis"
              /\ result_df = Call(trace[j].arg, online_sales)
    /\ pc = "explain_wait" =>
          request = <<ExplainRequest(query, HeadRows(result_df, SampleRows))>>
    /\ pc = "classify_wait" => ~Has("analysis") /\ ~Has("explain_result")
    /\ (\E j \in 1..Len(trace) : trace[j] = Event("classified", "unknown")) =>
          /\ ~Has("analysis")
          /\ ~Has("explain_result")
          /\ request = <<>>
          /\ explanation = ""

C2_Witness ==
    /\ pc = "explain_wait"
    /\ Has("analysis")
    /\ request # <<>>

\* C3: when the classification call fails, the run ends with the client's
\* exception raised from classify_intent; the intent is not unknown, the
\* "could not understand" warning is not shown, and neither an analysis nor
\* an explanation runs.
C3_ClassificationFailureSurfaces ==
    \A i \in 1..Len(trace) : trace[i].ev = "classify_failed" =>
        /\ pc = "error"
        /\ error = Raised(trace[i].arg, 251, "classify_intent")
        /\ intent # "unknown"
        /\ ~Shows("warning")
        /\ ~Has("analysis")
        /\ ~Has("explain_result")
        /\ result_df = <<>>
        /\ explanation = ""

C3_Witness ==
    /\ Has("classify_failed")
    /\ query = "Which categories are underperforming?"

\* C4: when the analysis succeeded and the explanation call then fails, the
\* analysis preview is still on the page, the run ends with the client's
\* exception raised from explain_result, and nothing is written as the
\* explanation (the table is not shown in place of the narrative).
C4_AnalysisSurvivesExplainFailure ==
    \A i \in 1..Len(trace) : trace[i].ev = "explain_failed" =>
        /\ intent \in Labels
        /\ result_df = Call(intent, online_sales)
        /\ \E k \in 1..Len(display) :
              display[k] = Element("dataframe", "", HeadRows(result_df, PreviewRows))
        /\ error = Raised(trace[i].arg, 263, "explain_result")
        /\ ~Shows("write")
        /\ explanation = ""

C4_Witness ==
    /\ Has("explain_failed")
    /\ result_df # <<>>

\* the month number a coupon row's Month stands for
LogicalMonth(c) ==
    CASE c.ty = "num" -> c.n
      [] c = Str("Mar") -> 3
      [] c = Str("Apr") -> 4
      [] OTHER -> 0

\* C5: the month of the discount lookup's key and the month derived from a
\* Sales row have the same type, so a Sales row whose (month, category)
\* matches a Coupons entry gets that entry's discount as Discount_pct.
C5_MonthKeysAgree ==
    EnrichmentDone =>
        \A i \in 1..Len(online_sales) : \A j \in 1..Len(files.coupons) :
            ( /\ IsNum(online_sales[i].Month)
              /\ LogicalMonth(files.coupons[j].Month) = online_sales[i].Month.n
              /\ files.coupons[j].Product_Category = online_sales[i].Product_Category )
            => /\ discount_coupon[j].Month.ty = online_sales[i].Month.ty
               /\ online_sales[i].Discount_pct = fillna(files.coupons[j].Discount_pct, 0)

\* C6: after enrichment every Sales row whose (month, category) key has no
\* entry in the discount lookup has Discount_pct = 0, never NaN, rows with
\* a NaN month included.
C6_MissingDiscountIsZero ==
    EnrichmentDone =>
        \A i \in 1..Len(online_sales) :
            (\A j \in 1..Len(discount_coupon) :
                <<discount_coupon[j].Month, discount_coupon[j].Product_Category>>
                    # <<online_sales[i].Month, online_sales[i].Product_Category>>)
            => online_sales[i].Discount_pct = Num(0)

C6_Witness ==
    /\ EnrichmentDone
    /\ Len(discount_coupon) >= 1
    /\ \E i \in 1..Len(online_sales) :
          /\ IsNaN(online_sales[i].Month)
          /\ online_sales[i].Discount_pct = Num(0)

\* C7: over the questions of one session the enrichment (lines 79-125)
\* executes at most once; later questions reuse the enriched table.
C7_EnrichedAtMostOnce == enrichments <= 1

\* C8: for a classified intent other than unknown, exactly the analysis
\* function the dict maps the intent to is invoked, once, on the enriched
\* Sales table, and no other analysis function is.
C8_DispatchExact ==
    (Has("classified") /\ intent \in Labels) =>
        /\ EventsOf("analysis") = <<Event("analysis", intent)>>
        /\ online_sales = Enrich(files).sales
        /\ result_df = Call(intent, online_sales)

C8_Witness ==
    /\ intent = "underperforming_products"
    /\ pc = "done"
    /\ EventsOf("analysis") = <<Event("analysis", "underperforming_products")>>

\* the Revenue of the rows of category c, row by row
RECURSIVE CategoryRevenue(_, _)
CategoryRevenue(df, c) ==
    IF df = <<>> THEN 0
    ELSE (IF Head(df).Product_Category = c THEN Head(df).Revenue ELSE 0)
         + CategoryRevenue(Tail(df), c)

\* C9: underperforming_products returns one row per product category of
\* the enriched table, total_revenue being the sum of Revenue over the
\* category's rows, ordered ascending by total_revenue.
C9_UnderperformingAscending ==
    (Has("classified") /\ intent = "underperforming_products") =>
        LET cats == {online_sales[i].Product_Category : i \in 1..Len(online_sales)}
        IN  /\ {result_df[k].Product_Category : k \in 1..Len(result_df)} = cats
            /\ Len(result_df) = Cardinality(cats)
            /\ \A k \in 1..Len(result_df) :
                  result_df[k].total_revenue =
                      CategoryRevenue(online_sales, result_df[k].Product_Category)
            /\ \A k \in 1..(Len(result_df) - 1) :
                  result_df[k].total_revenue <= result_df[k + 1].total_revenue

C9_Witness ==
    /\ intent = "underperforming_products"
    /\ Len(result_df) = 2
    /\ result_df[1].Product_Category = "Nest"
    /\ result_df[1].total_revenue < result_df[2].total_revenue

\* the same columns and the same values, row by row
SameTable(a, b) ==
    /\ Len(a) = Len(b)
    /\ \A i \in 1..Len(a) :
          /\ DOMAIN a[i] = DOMAIN b[i]
          /\ \A f \in DOMAIN a[i] : a[i][f] = b[i][f]

\* C10: enrichment leaves the loaded tables as load_data returned them (no
\* column added, replaced or retyped in place), and no later step of the
\* run changes them.
C10_LoadedTablesUnchanged ==
    pc # "start" =>
        /\ SameTable(online_sales, files.sales)
        /\ SameTable(discount_coupon, files.coupons)
        /\ SameTable(marketing_spend, files.marketing)
        /\ SameTable(tax_amount, files.tax)

====
